---- MODULE Spec2Model ----
(***************************************************************************)
(* Model of the data-loading pipeline of aps360_project_progress_code.py:  *)
(* the two raster fetches (get_vegetation_tensor,                          *)
(* get_fire_probability_tensor), resize_tensor, concat_tensors,            *)
(* get_cnn_tensor, get_next_day and the two batch comprehensions that      *)
(* build `tensors` and `labels`.                                           *)
(*                                                                         *)
(* Representation.                                                         *)
(*  - a 2-D array is a sequence of rows, a row a sequence of cells;        *)
(*    a (H, W, C) tensor is a sequence of rows of sequences of channel     *)
(*    vectors, so t[r][c][k] is python's t[r-1, c-1, k-1];                 *)
(*  - a python value that may be None is the record [isNone, data];        *)
(*  - the result of a call is [exc, val]: exc = "none" when it returns;    *)
(*  - a string is a sequence of one-character strings;                     *)
(*  - fire weights are in tenths (5 is 0.5, 10 is 1.0);                    *)
(*  - angles are in hundredths of a degree, cosines in units of 1/Scale.   *)
(***************************************************************************)
EXTENDS Integers, Sequences, FiniteSets, TLC

\* ---------------------------------------------------------------- bounds
\* side of the target grid (350 in the source, lines 87-88 and 155-156)
TargetSide == 2
\* number of records the comprehensions run over (100 in the source)
NumRecords == 2
\* largest number of images the catalog holds for one date window
MaxImages == 2

\* ------------------------------------------------------- python values
None == [isNone |-> TRUE, data |-> <<>>]

Some(x) == [isNone |-> FALSE, data |-> x]

Return(v) == [exc |-> "none", val |-> v]

Raise(e) == [exc |-> e, val |-> None]

\* --------------------------------------------------------------- arrays
RECURSIVE Flatten(_)
\* numpy.ravel of a 2-D array given as a list of rows
Flatten(a) == IF a = <<>> THEN <<>> ELSE Head(a) \o Flatten(Tail(a))

\* numpy's ndarray.shape of np.array(list of rows)
Shape(a) == IF a = <<>> THEN <<0>> ELSE <<Len(a), Len(a[1])>>

\* shape of a (H, W, C) tensor
TensorShape(t) == <<Len(t), Len(t[1]), Len(t[1][1])>>

\* a slip: the array is cropped or padded with its own cells row by row,
\* keeping whatever number of rows the service returned
np_resize_rows_kept(a, rows, cols) ==
    [r \in 1..Len(a) |-> [c \in 1..cols |-> a[r][((c - 1) % Len(a[r])) + 1]]]

\* numpy.resize(a, (rows, cols)): the flattened array repeated cyclically
\* (or cut) to rows*cols cells; an empty array gives zeros
np_resize(a, rows, cols) ==
    LET flat == Flatten(a)
    IN  [r \in 1..rows |-> [c \in 1..cols |->
            IF Len(flat) = 0 THEN 0
            ELSE flat[(((r - 1) * cols + (c - 1)) % Len(flat)) + 1]]]

\* a[:, :, np.newaxis]
NewAxis(a) == [r \in 1..Len(a) |-> [c \in 1..Len(a[r]) |-> <<a[r][c]>>]]

\* t[:, :, k] with python index k
Channel(t, k) == [r \in 1..Len(t) |-> [c \in 1..Len(t[r]) |-> t[r][c][k + 1]]]

\* lines 86-96 and 152-164: np.array, the shape test, np.resize, the new
\* axis and torch.tensor
NormalizeGrid(arr) ==
    LET fixed == IF Shape(arr) # <<TargetSide, TargetSide>>
                 THEN np_resize(arr, TargetSide, TargetSide)
                 ELSE arr
    IN  NewAxis(fixed)

\* ------------------------------------------------- geometry, lines 44-52
\* half_side_length, in km
half_side_length == 175
\* 111.32 km per degree, in hundredths of a km
KmPerDegree == 11132
\* fixed-point unit of the cosine and of radians
Scale == 10000
\* pi in units of 1/Scale
PiScaled == 31416

\* np.deg2rad of an angle in hundredths of a degree, in units of 1/Scale
deg2rad(latc) == (latc * PiScaled) \div 18000

Abs(x) == IF x < 0 THEN -x ELSE x

RECURSIVE CosSeries(_, _, _)
\* the terms k.. of the cosine series of x, `term` being term k-1 without sign
CosSeries(x, k, term) ==
    IF k > 8 THEN 0
    ELSE LET t == ((((term * x) \div Scale) * x) \div Scale) \div ((2 * k - 1) * (2 * k))
         IN  (IF k % 2 = 1 THEN -t ELSE t) + CosSeries(x, k + 1, t)

\* np.cos of an angle in units of 1/Scale (|x| below pi/2), in units of 1/Scale
cos(x) == Scale + CosSeries(Abs(x), 1, Scale)

\* a slip: the longitude half width is taken off on both sides
BoundingBox_sign_slip(latitude, longitude) ==
    LET dlat == (half_side_length * 10000) \div KmPerDegree
        dlon == (half_side_length * 1000000)
                    \div ((KmPerDegree * cos(deg2rad(latitude))) \div 100)
    IN  [lat_min |-> latitude - dlat, lat_max |-> latitude + dlat,
         lon_min |-> longitude - dlon, lon_max |-> longitude - dlon]

\* lines 45-49: the box of get_vegetation_tensor, in hundredths of a degree
BoundingBox(latitude, longitude) ==
    LET dlat == (half_side_length * 10000) \div KmPerDegree
        dlon == (half_side_length * 1000000)
                    \div ((KmPerDegree * cos(deg2rad(latitude))) \div 100)
    IN  [lat_min |-> latitude - dlat, lat_max |-> latitude + dlat,
         lon_min |-> longitude - dlon, lon_max |-> longitude + dlon]

\* ------------------------------------------ the remote catalog's replies
\* the errors the service answers a query with
ErrorKinds == {"authentication", "quota", "empty result", "malformed region"}

\* what the client library raises for a service error
EEException(kind) == [type |-> "EEException", message |-> kind]

\* a slip: the except clause names another exception class
except_other_class(e) == e.type = "ValueError"

\* `except ee.EEException`, lines 98 and 166
except_EEException(e) == e.type = "EEException"

\* ------------------------------------- server-side image algebra (ee.Image)
\* image.eq(code): 1 where the cell equals code, else 0
eq(img, code) == [r \in 1..Len(img) |-> [c \in 1..Len(img[r]) |->
                    IF img[r][c] = code THEN 1 ELSE 0]]

\* image.multiply(k), k in tenths
multiply(img, k) == [r \in 1..Len(img) |-> [c \in 1..Len(img[r]) |-> img[r][c] * k]]

\* image.add(other)
add(a, b) == [r \in 1..Len(a) |-> [c \in 1..Len(a[r]) |-> a[r][c] + b[r][c]]]

\* a slip: the high-confidence code 6 is left out
assign_fire_confidence_no_high(image) ==
    LET fire_mask == image.FireMask
        low_confidence == multiply(eq(fire_mask, 4), 5)
        nominal_confidence == multiply(eq(fire_mask, 5), 10)
        fire_confidence == add(low_confidence, nominal_confidence)
    IN  [FireMask |-> image.FireMask, FireConfidence |-> fire_confidence]

\* lines 126-132; an image is the record of its bands
assign_fire_confidence(image) ==
    LET fire_mask == image.FireMask
        low_confidence == multiply(eq(fire_mask, 4), 5)
        nominal_confidence == multiply(eq(fire_mask, 5), 10)
        high_confidence == multiply(eq(fire_mask, 6), 10)
        fire_confidence == add(add(low_confidence, nominal_confidence), high_confidence)
    IN  [FireMask |-> image.FireMask, FireConfidence |-> fire_confidence]

Max2(x, y) == IF x >= y THEN x ELSE y

RECURSIVE CollectionMax(_)
\* ImageCollection.max() of a non-empty sequence of single-band images
CollectionMax(imgs) ==
    IF Len(imgs) = 1 THEN imgs[1]
    ELSE LET rest == CollectionMax(Tail(imgs))
         IN  [r \in 1..Len(imgs[1]) |-> [c \in 1..Len(imgs[1][r]) |->
                Max2(imgs[1][r][c], rest[r][c])]]

\* a slip: the raw codes are reduced first and the maximum code is mapped
FireConfidenceImage_max_first(modis) ==
    assign_fire_confidence(
        [FireMask |-> CollectionMax([k \in 1..Len(modis) |-> modis[k].FireMask])]
    ).FireConfidence

\* lines 135-138: map(assign_fire_confidence), select('FireConfidence'), max()
FireConfidenceImage(modis) ==
    LET modis_with_confidence == [k \in 1..Len(modis) |-> assign_fire_confidence(modis[k])]
    IN  CollectionMax([k \in 1..Len(modis) |-> modis_with_confidence[k].FireConfidence])

\* ------------------------------------------------------------ the fetches
\* A reply of the catalog to the vegetation query is [error, array]: a
\* service error, or the array that sampleRectangle(...).get('NDVI') gives.
\* lines 42-100
get_vegetation_tensor(latitude, longitude, start_date, end_date, reply) ==
    IF reply.error # "none"
    THEN IF except_EEException(EEException(reply.error))
         THEN Return(None)
         ELSE Raise(EEException(reply.error).type)
    ELSE Return(Some(NormalizeGrid(reply.array)))

\* A reply to the fire query is [error, images]: a service error, or the
\* FireMask images of the window, which the query maps and reduces.
\* lines 113-168
get_fire_probability_tensor(latitude, longitude, start_date, end_date, reply) ==
    IF reply.error # "none"
    THEN IF except_EEException(EEException(reply.error))
         THEN Return(None)
         ELSE Raise(EEException(reply.error).type)
    ELSE Return(Some(NormalizeGrid(FireConfidenceImage(reply.images))))

\* ------------------------------------------------- resize_tensor, fusion
\* F.adaptive_avg_pool2d of one (h, w) plane to (oh, ow): cell (i, j) is the
\* mean of rows floor(i*h/oh) .. ceil((i+1)*h/oh)-1 and the like columns
adaptive_avg_pool2d(a, oh, ow) ==
    LET h == Len(a)
        w == Len(a[1])
        lo(i, n, o) == ((i - 1) * n) \div o + 1
        hi(i, n, o) == (i * n + o - 1) \div o
        window(i, j) == Flatten([r \in 1..(hi(i, h, oh) - lo(i, h, oh) + 1) |->
                            [c \in 1..(hi(j, w, ow) - lo(j, w, ow) + 1) |->
                                a[lo(i, h, oh) + r - 1][lo(j, w, ow) + c - 1]]])
    IN  [i \in 1..oh |-> [j \in 1..ow |->
            LET cells == window(i, j)
                total[k \in 0..Len(cells)] ==
                    IF k = 0 THEN 0 ELSE total[k - 1] + cells[k]
            IN  total[Len(cells)] \div Len(cells)]]

\* lines 27-40; resize_tensor(None) fails on input_tensor.shape
resize_tensor(input_tensor) ==
    IF input_tensor.isNone THEN Raise("AttributeError")
    ELSE Return(Some(NewAxis(
            adaptive_avg_pool2d(Channel(input_tensor.data, 0), TargetSide, TargetSide))))

\* a slip: the arguments are concatenated in the order given
concat_tensors_in_order(tensor1, tensor2) ==
    IF tensor1.isNone \/ tensor2.isNone THEN Raise("TypeError")
    ELSE IF <<Len(tensor1.data), Len(tensor1.data[1])>>
                # <<Len(tensor2.data), Len(tensor2.data[1])>>
    THEN Raise("RuntimeError")
    ELSE Return(Some([r \in 1..Len(tensor1.data) |-> [c \in 1..Len(tensor1.data[r]) |->
                        tensor1.data[r][c] \o tensor2.data[r][c]]]))

\* lines 180-182: torch.cat((tensor2, tensor1), dim=2); torch.cat of a None
\* is a TypeError, of planes of different sizes a RuntimeError
concat_tensors(tensor1, tensor2) ==
    IF tensor1.isNone \/ tensor2.isNone THEN Raise("TypeError")
    ELSE IF <<Len(tensor1.data), Len(tensor1.data[1])>>
                # <<Len(tensor2.data), Len(tensor2.data[1])>>
    THEN Raise("RuntimeError")
    ELSE Return(Some([r \in 1..Len(tensor1.data) |-> [c \in 1..Len(tensor1.data[r]) |->
                        tensor2.data[r][c] \o tensor1.data[r][c]]]))

\* ------------------------------------------------------ dates, lines 262-266
Digits == <<"0", "1", "2", "3", "4", "5", "6", "7", "8", "9">>

\* the value of a digit character
DigitValue(ch) == CHOOSE n \in 0..9 : Digits[n + 1] = ch

\* the value of the digits s[from..to]
Number(s, from, to) ==
    LET val[k \in (from - 1)..to] ==
            IF k = from - 1 THEN 0 ELSE 10 * val[k - 1] + DigitValue(s[k])
    IN  val[to]

\* n written with `width` digits, zero padded
Padded(n, width) ==
    [k \in 1..width |-> Digits[((n \div (10 ^ (width - k))) % 10) + 1]]

\* datetime's _is_leap
is_leap(year) == year % 4 = 0 /\ (year % 100 # 0 \/ year % 400 = 0)

DAYS_IN_MONTH == <<31, 28, 31, 30, 31, 30, 31, 31, 30, 31, 30, 31>>

DAYS_BEFORE_MONTH == <<0, 31, 59, 90, 120, 151, 181, 212, 243, 273, 304, 334>>

\* datetime's _days_in_month
days_in_month(year, month) ==
    IF month = 2 /\ is_leap(year) THEN 29 ELSE DAYS_IN_MONTH[month]

\* datetime's _ymd2ord: the ordinal of a date, 0001-01-01 being day 1
ymd2ord(year, month, day) ==
    LET y == year - 1
    IN  (y * 365 + y \div 4 - y \div 100 + y \div 400)
        + DAYS_BEFORE_MONTH[month] + (IF month > 2 /\ is_leap(year) THEN 1 ELSE 0)
        + day

\* datetime's _ord2ymd: the date of an ordinal
ord2ymd(ordinal) ==
    LET n0 == ordinal - 1
        n400 == n0 \div 146097
        na == n0 % 146097
        n100 == na \div 36524
        nb == na % 36524
        n4 == nb \div 1461
        nc == nb % 1461
        n1 == nc \div 365
        n == nc % 365
        year == n400 * 400 + 1 + n100 * 100 + n4 * 4 + n1
        leapyear == n1 = 3 /\ (n4 # 24 \/ n100 = 3)
        month0 == (n + 50) \div 32
        preceding0 == DAYS_BEFORE_MONTH[month0] + (IF month0 > 2 /\ leapyear THEN 1 ELSE 0)
        month == IF preceding0 > n THEN month0 - 1 ELSE month0
        preceding == IF preceding0 > n
                     THEN preceding0 - (DAYS_IN_MONTH[month]
                                        + (IF month = 2 /\ leapyear THEN 1 ELSE 0))
                     ELSE preceding0
    IN  IF n1 = 4 \/ n100 = 4
        THEN [year |-> year - 1, month |-> 12, day |-> 31]
        ELSE [year |-> year, month |-> month, day |-> n - preceding + 1]

\* datetime.strptime(date_string, "%Y-%m-%d") of a zero-padded date
strptime(date_string) ==
    [year |-> Number(date_string, 1, 4), month |-> Number(date_string, 6, 7),
     day |-> Number(date_string, 9, 10)]

\* date_obj + timedelta(days=1)
add_one_day(date_obj) == ord2ymd(ymd2ord(date_obj.year, date_obj.month, date_obj.day) + 1)

\* next_day_obj.strftime("%Y-%m-%d")
strftime(date_obj) ==
    Padded(date_obj.year, 4) \o <<"-">> \o Padded(date_obj.month, 2)
        \o <<"-">> \o Padded(date_obj.day, 2)

\* a slip: the day is bumped without carrying into the month
get_next_day_no_carry(date_string) ==
    LET date_obj == strptime(date_string)
    IN  strftime([date_obj EXCEPT !.day = (date_obj.day % 31) + 1])

\* lines 262-266
get_next_day(date_string) == strftime(add_one_day(strptime(date_string)))

\* the date arguments of the call of line 277 for a record dated d
InputWindow(d) == <<d, get_next_day(d)>>

\* the date arguments of the call of line 278 for a record dated d
LabelWindow(d) == <<get_next_day(d), get_next_day(get_next_day(d))>>

\* ------------------------------------------------------ bounded inputs
\* an h x w array whose cells are base+1, base+2, ... in row-major order
Pattern(h, w, base) == [r \in 1..h |-> [c \in 1..w |-> base + (r - 1) * w + c]]

\* the shapes the service may answer with: the target's, smaller, larger,
\* non-square, one cell, nothing
ReplyShapes ==
    {<<TargetSide, TargetSide>>, <<TargetSide - 1, TargetSide>>,
     <<TargetSide, TargetSide + 1>>, <<TargetSide + 1, TargetSide + 1>>,
     <<1, 1>>, <<0, 0>>}

\* NDVI arrays (values from 21 up, apart from the fire weights 0..10)
VegetationArrays == {Pattern(sh[1], sh[2], base) : sh \in ReplyShapes, base \in {20, 60}}

ErrorReplies == {[error |-> e, array |-> <<>>, images |-> <<>>] : e \in ErrorKinds}

VegetationReplies ==
    ErrorReplies \cup {[error |-> "none", array |-> a, images |-> <<>>] : a \in VegetationArrays}

\* the FireMask codes of the model: the classes 0..9 of the product and 255
FireCodes == <<0, 3, 4, 5, 6, 7, 8, 255>>

\* an h x w FireMask image whose cells run through FireCodes from `seed`
FireMaskImage(h, w, seed) ==
    [FireMask |-> [r \in 1..h |-> [c \in 1..w |->
        FireCodes[((seed + (r - 1) * w + c - 1) % Len(FireCodes)) + 1]]]]

FireShapes == {sh \in ReplyShapes : sh[1] > 0}

\* the image collections of a window: 1..MaxImages images of one shape
FireCollections ==
    UNION {[1..n -> {FireMaskImage(sh[1], sh[2], seed) : seed \in 0..(Len(FireCodes) - 1)}]
            : n \in 1..MaxImages, sh \in FireShapes}

FireReplies ==
    ErrorReplies \cup {[error |-> "none", array |-> <<>>, images |-> m] : m \in FireCollections}

\* the replies the batch model draws from: every error, a right-sized and a
\* wrong-sized answer
BatchVegetationReplies ==
    ErrorReplies \cup
    {[error |-> "none", array |-> a, images |-> <<>>] :
        a \in {Pattern(TargetSide, TargetSide, 20), Pattern(TargetSide + 1, TargetSide, 60)}}

BatchFireReplies ==
    ErrorReplies \cup
    {[error |-> "none", array |-> <<>>, images |-> m] :
        m \in {<<FireMaskImage(TargetSide, TargetSide, 2)>>,
               <<FireMaskImage(1, TargetSide + 1, 3), FireMaskImage(1, TargetSide + 1, 6)>>}}

\* a date as the string the csv column holds
DateString(y, m, d) == strftime([year |-> y, month |-> m, day |-> d])

\* the rows of the csv the batch model draws from (angles in 1/100 degree)
BatchRecords ==
    {[date |-> DateString(2023, 12, 31), latitude |-> 4366, longitude |-> -7940],
     [date |-> DateString(2024, 2, 27), latitude |-> 5512, longitude |-> -11475]}

\* --------------------------------------------------------------- state
VARIABLES
    date_list, lat_list, long_list,   \* lines 255-257
    pc,                               \* the statement being run
    step,                             \* the position inside get_cnn_tensor
    i,                                \* the comprehension's index
    items,                            \* the list the comprehension is building
    vegetation_tensor,                \* locals of get_cnn_tensor
    resized_vegetation_tensor,
    fire_prob_tensor,
    tensors, labels, dataset,         \* lines 277, 278, 280
    raised,                           \* the exception that ended the script
    log,                              \* the queries the catalog has answered
    in_flight,                        \* the queries sent and not yet answered
    call, ret                         \* a single call of one function

vars == <<date_list, lat_list, long_list, pc, step, i, items, vegetation_tensor,
          resized_vegetation_tensor, fire_prob_tensor, tensors, labels, dataset,
          raised, log, in_flight, call, ret>>

batch_vars == <<date_list, lat_list, long_list, pc, step, i, items, vegetation_tensor,
                resized_vegetation_tensor, fire_prob_tensor, tensors, labels, dataset,
                raised, log, in_flight>>

NoCall == [fn |-> "none"]

Pending == [exc |-> "pending", val |-> None]

\* ------------------------------------------------- the batch, lines 277-280
Init ==
    /\ \E recs \in [1..NumRecords -> BatchRecords] :
        /\ date_list = [k \in 1..NumRecords |-> recs[k].date]
        /\ lat_list = [k \in 1..NumRecords |-> recs[k].latitude]
        /\ long_list = [k \in 1..NumRecords |-> recs[k].longitude]
    /\ pc = "line277"
    /\ step = "vegetation"
    /\ i = 0
    /\ items = <<>>
    /\ vegetation_tensor = None
    /\ resized_vegetation_tensor = None
    /\ fire_prob_tensor = None
    /\ tensors = None
    /\ labels = None
    /\ dataset = None
    /\ raised = "none"
    /\ log = <<>>
    /\ in_flight = <<>>
    /\ call = NoCall
    /\ ret = Pending

\* the date arguments of the get_cnn_tensor call being run
Window == IF pc = "line277" THEN InputWindow(date_list[i + 1])
          ELSE LabelWindow(date_list[i + 1])

\* an uncaught exception ends the script: the comprehension's list is lost
\* and the statement's target stays unassigned
Crash(e) ==
    /\ pc' = "crashed"
    /\ raised' = e
    /\ items' = <<>>
    /\ step' = "none"
    /\ vegetation_tensor' = None
    /\ resized_vegetation_tensor' = None
    /\ fire_prob_tensor' = None
    /\ UNCHANGED <<i, tensors, labels, dataset>>

\* the query a fetch sends: the NDVI query carries the box of lines 45-52,
\* the FireMask query the buffered point of line 120 (metres)
QueryOf(band, latitude, longitude, start_date, end_date, record, line, reply) ==
    [band |-> band, latitude |-> latitude, longitude |-> longitude,
     region |-> IF band = "NDVI" THEN BoundingBox(latitude, longitude)
                ELSE [point |-> <<longitude, latitude>>,
                      buffer |-> half_side_length * 1000],
     start_date |-> start_date, end_date |-> end_date,
     record |-> record, line |-> line, reply |-> reply]

Query(band, reply) ==
    QueryOf(band, lat_list[i + 1], long_list[i + 1], Window[1], Window[2], i, pc, reply)

\* the reply of a query that has not been answered yet
NoReply == [error |-> "pending", array |-> <<>>, images |-> <<>>]

\* line 188: get_vegetation_tensor sends its query (lines 55-84, getInfo)
SendVegetation ==
    /\ pc \in {"line277", "line278"}
    /\ step = "vegetation"
    /\ in_flight' = Append(in_flight, Query("NDVI", NoReply))
    /\ step' = "vegetation_wait"
    /\ UNCHANGED <<date_list, lat_list, long_list, pc, i, items, vegetation_tensor,
                   resized_vegetation_tensor, fire_prob_tensor, tensors, labels,
                   dataset, raised, log, call, ret>>

\* a slip: the call goes on while its query still counts as unanswered
GetVegetation_not_awaited ==
    /\ pc \in {"line277", "line278"}
    /\ step = "vegetation_wait"
    /\ \E reply \in BatchVegetationReplies :
        LET r == get_vegetation_tensor(lat_list[i + 1], long_list[i + 1],
                                       Window[1], Window[2], reply)
        IN  /\ log' = Append(log, Query("NDVI", reply))
            /\ IF r.exc = "none"
               THEN /\ vegetation_tensor' = r.val
                    /\ step' = "resize"
                    /\ UNCHANGED <<pc, i, items, resized_vegetation_tensor,
                                   fire_prob_tensor, tensors, labels, dataset, raised>>
               ELSE Crash(r.exc)
    /\ UNCHANGED <<date_list, lat_list, long_list, in_flight, call, ret>>

\* line 188: the blocking call ends with the catalog's answer
GetVegetation ==
    /\ pc \in {"line277", "line278"}
    /\ step = "vegetation_wait"
    /\ \E reply \in BatchVegetationReplies :
        LET r == get_vegetation_tensor(lat_list[i + 1], long_list[i + 1],
                                       Window[1], Window[2], reply)
        IN  /\ log' = Append(log, Query("NDVI", reply))
            /\ IF r.exc = "none"
               THEN /\ vegetation_tensor' = r.val
                    /\ step' = "resize"
                    /\ UNCHANGED <<pc, i, items, resized_vegetation_tensor,
                                   fire_prob_tensor, tensors, labels, dataset, raised>>
               ELSE Crash(r.exc)
    /\ in_flight' = Tail(in_flight)
    /\ UNCHANGED <<date_list, lat_list, long_list, call, ret>>

\* line 189
Resize ==
    /\ pc \in {"line277", "line278"}
    /\ step = "resize"
    /\ LET r == resize_tensor(vegetation_tensor)
       IN  IF r.exc = "none"
           THEN /\ resized_vegetation_tensor' = r.val
                /\ step' = "fire"
                /\ UNCHANGED <<pc, i, items, vegetation_tensor, fire_prob_tensor,
                               tensors, labels, dataset, raised>>
           ELSE Crash(r.exc)
    /\ UNCHANGED <<date_list, lat_list, long_list, log, in_flight, call, ret>>

\* line 190: get_fire_probability_tensor sends its query (lines 123-150)
SendFire ==
    /\ pc \in {"line277", "line278"}
    /\ step = "fire"
    /\ in_flight' = Append(in_flight, Query("FireConfidence", NoReply))
    /\ step' = "fire_wait"
    /\ UNCHANGED <<date_list, lat_list, long_list, pc, i, items, vegetation_tensor,
                   resized_vegetation_tensor, fire_prob_tensor, tensors, labels,
                   dataset, raised, log, call, ret>>

\* line 190: the blocking call ends with the catalog's answer
GetFire ==
    /\ pc \in {"line277", "line278"}
    /\ step = "fire_wait"
    /\ \E reply \in BatchFireReplies :
        LET r == get_fire_probability_tensor(lat_list[i + 1], long_list[i + 1],
                                             Window[1], Window[2], reply)
        IN  /\ log' = Append(log, Query("FireConfidence", reply))
            /\ IF r.exc = "none"
               THEN /\ fire_prob_tensor' = r.val
                    /\ step' = "concat"
                    /\ UNCHANGED <<pc, i, items, vegetation_tensor,
                                   resized_vegetation_tensor, tensors, labels,
                                   dataset, raised>>
               ELSE Crash(r.exc)
    /\ in_flight' = Tail(in_flight)
    /\ UNCHANGED <<date_list, lat_list, long_list, call, ret>>

\* lines 191-192, and the comprehension taking the value: the whole tensor on
\* line 277, its slice [:, :, 1] on line 278
Concat ==
    /\ pc \in {"line277", "line278"}
    /\ step = "concat"
    /\ LET r == concat_tensors(fire_prob_tensor, resized_vegetation_tensor)
       IN  IF r.exc = "none"
           THEN /\ items' = Append(items, IF pc = "line277" THEN r.val.data
                                          ELSE Channel(r.val.data, 1))
                /\ i' = i + 1
                /\ step' = IF i + 1 = NumRecords THEN "stack" ELSE "vegetation"
                /\ vegetation_tensor' = None
                /\ resized_vegetation_tensor' = None
                /\ fire_prob_tensor' = None
                /\ UNCHANGED <<pc, tensors, labels, dataset, raised>>
           ELSE Crash(r.exc)
    /\ UNCHANGED <<date_list, lat_list, long_list, log, in_flight, call, ret>>

\* line 277: torch.stack of the finished list
StackTensors ==
    /\ pc = "line277"
    /\ step = "stack"
    /\ tensors' = Some(items)
    /\ items' = <<>>
    /\ i' = 0
    /\ pc' = "line278"
    /\ step' = "vegetation"
    /\ UNCHANGED <<date_list, lat_list, long_list, vegetation_tensor,
                   resized_vegetation_tensor, fire_prob_tensor, labels, dataset,
                   raised, log, in_flight, call, ret>>

\* line 278
StackLabels ==
    /\ pc = "line278"
    /\ step = "stack"
    /\ labels' = Some(items)
    /\ items' = <<>>
    /\ pc' = "line280"
    /\ step' = "none"
    /\ UNCHANGED <<date_list, lat_list, long_list, i, vegetation_tensor,
                   resized_vegetation_tensor, fire_prob_tensor, tensors, dataset,
                   raised, log, in_flight, call, ret>>

\* line 280: TensorDataset pairs tensors[k] with labels[k]
MakeDataset ==
    /\ pc = "line280"
    /\ dataset' = Some([k \in 1..Len(tensors.data) |-> <<tensors.data[k], labels.data[k]>>])
    /\ pc' = "done"
    /\ UNCHANGED <<date_list, lat_list, long_list, step, i, items, vegetation_tensor,
                   resized_vegetation_tensor, fire_prob_tensor, tensors, labels,
                   raised, log, in_flight, call, ret>>

Next ==
    \/ SendVegetation
    \/ GetVegetation
    \/ Resize
    \/ SendFire
    \/ GetFire
    \/ Concat
    \/ StackTensors
    \/ StackLabels
    \/ MakeDataset

Spec == Init /\ [][Next]_vars

\* --------------------------------------------- single calls of one function
Leap(y) == y % 4 = 0 /\ (y % 100 # 0 \/ y % 400 = 0)

MonthLength(y, m) ==
    IF m = 2 THEN (IF Leap(y) THEN 29 ELSE 28)
    ELSE IF m \in {4, 6, 9, 11} THEN 30 ELSE 31

CallYears == {2000, 2023, 2024, 2100}

\* every calendar date of the years of CallYears, as the csv writes it
CallDates ==
    {DateString(t[1], t[2], t[3]) :
        t \in {u \in CallYears \X (1..12) \X (1..31) : u[3] <= MonthLength(u[1], u[2])}}

\* centers with |latitude| < 89 degrees
CallLatitudes == {-8899, -4500, 0, 4366, 6000, 8899}

CallLongitudes == {-18000, -7940, 18000}

CallImages == {FireMaskImage(sh[1], sh[2], seed) :
                    sh \in FireShapes, seed \in 0..(Len(FireCodes) - 1)}

\* single-channel tensors, a None, and a tensor of another size
CallTensors ==
    {Some(NewAxis(Pattern(TargetSide, TargetSide, base))) : base \in {0, 20, 60}}
    \cup {None, Some(NewAxis(Pattern(TargetSide + 1, TargetSide, 0)))}

IdleBatch ==
    /\ date_list = <<>>
    /\ lat_list = <<>>
    /\ long_list = <<>>
    /\ pc = "idle"
    /\ step = "none"
    /\ i = 0
    /\ items = <<>>
    /\ vegetation_tensor = None
    /\ resized_vegetation_tensor = None
    /\ fire_prob_tensor = None
    /\ tensors = None
    /\ labels = None
    /\ dataset = None
    /\ raised = "none"
    /\ log = <<>>
    /\ in_flight = <<>>

InitCall ==
    /\ IdleBatch
    /\ ret = Pending
    /\ \/ \E d \in CallDates : call = [fn |-> "get_next_day", date_string |-> d]
       \/ \E a \in CallTensors, b \in CallTensors :
            call = [fn |-> "concat_tensors", tensor1 |-> a, tensor2 |-> b]
       \/ \E img \in CallImages : call = [fn |-> "assign_fire_confidence", image |-> img]
       \/ \E lat \in CallLatitudes, lon \in CallLongitudes, reply \in VegetationReplies :
            call = [fn |-> "get_vegetation_tensor", latitude |-> lat, longitude |-> lon,
                    start_date |-> DateString(2023, 12, 31),
                    end_date |-> DateString(2024, 1, 1), reply |-> reply]
       \/ \E reply \in FireReplies :
            call = [fn |-> "get_fire_probability_tensor", latitude |-> 4366,
                    longitude |-> -7940, start_date |-> DateString(2023, 12, 31),
                    end_date |-> DateString(2024, 1, 1), reply |-> reply]

unit_frame == <<date_list, lat_list, long_list, pc, step, i, items, vegetation_tensor,
                resized_vegetation_tensor, fire_prob_tensor, tensors, labels, dataset,
                raised, in_flight, call>>

\* get_next_day(d), and the date arguments lines 277 and 278 build from d
Call_get_next_day ==
    /\ call.fn = "get_next_day"
    /\ ret = Pending
    /\ ret' = Return(Some([next_day |-> get_next_day(call.date_string),
                           input |-> InputWindow(call.date_string),
                           label |-> LabelWindow(call.date_string)]))
    /\ UNCHANGED <<unit_frame, log>>

Call_concat_tensors ==
    /\ call.fn = "concat_tensors"
    /\ ret = Pending
    /\ ret' = concat_tensors(call.tensor1, call.tensor2)
    /\ UNCHANGED <<unit_frame, log>>

Call_assign_fire_confidence ==
    /\ call.fn = "assign_fire_confidence"
    /\ ret = Pending
    /\ ret' = Return(Some(assign_fire_confidence(call.image)))
    /\ UNCHANGED <<unit_frame, log>>

Call_get_vegetation_tensor ==
    /\ call.fn = "get_vegetation_tensor"
    /\ ret = Pending
    /\ ret' = get_vegetation_tensor(call.latitude, call.longitude, call.start_date,
                                    call.end_date, call.reply)
    /\ log' = <<QueryOf("NDVI", call.latitude, call.longitude, call.start_date,
                        call.end_date, 0, "call", call.reply)>>
    /\ UNCHANGED unit_frame

Call_get_fire_probability_tensor ==
    /\ call.fn = "get_fire_probability_tensor"
    /\ ret = Pending
    /\ ret' = get_fire_probability_tensor(call.latitude, call.longitude, call.start_date,
                                          call.end_date, call.reply)
    /\ log' = <<QueryOf("FireConfidence", call.latitude, call.longitude, call.start_date,
                        call.end_date, 0, "call", call.reply)>>
    /\ UNCHANGED unit_frame

NextCall ==
    \/ Call_get_next_day
    \/ Call_concat_tensors
    \/ Call_assign_fire_confidence
    \/ Call_get_vegetation_tensor
    \/ Call_get_fire_probability_tensor

SpecCall == InitCall /\ [][NextCall]_vars

\* ------------------------------------------------------------ properties
\* the log entries of one get_cnn_tensor call: statement `line`, record k
\* (k from 0, as range() counts), band `band`
Entries(line, k, band) ==
    {n \in 1..Len(log) : log[n].line = line /\ log[n].record = k /\ log[n].band = band}

\* the records one of whose fetches failed
FailedRecords == {log[n].record : n \in {m \in 1..Len(log) : log[m].reply.error # "none"}}

\* the number of examples the batch handed to the caller
Produced == IF dataset.isNone THEN 0 ELSE Len(dataset.data)

\* the grid a successful vegetation reply stands for
VegetationGrid(reply) ==
    IF Shape(reply.array) = <<TargetSide, TargetSide>> THEN reply.array
    ELSE np_resize(reply.array, TargetSide, TargetSide)

\* the grid a successful fire reply stands for
FireGrid(reply) ==
    LET img == FireConfidenceImage(reply.images)
    IN  IF Shape(img) = <<TargetSide, TargetSide>> THEN img
        ELSE np_resize(img, TargetSide, TargetSide)

\* C1 (as claimed): a failed fetch never ends the assembly with an
\* exception, and when the batch is done the inputs and the labels are those
\* of the records none of whose fetches failed, one of each per record.
C1_FailedFetchSkipsExample ==
    /\ (FailedRecords # {}) => raised = "none"
    /\ pc = "done" =>
         /\ Len(tensors.data) = NumRecords - Cardinality(FailedRecords)
         /\ Len(labels.data) = NumRecords - Cardinality(FailedRecords)

\* C3 (as claimed): when the batch has ended, the examples produced and the
\* records skipped for a failed fetch add up to the number of records.
C3_EveryRecordAccounted ==
    pc \in {"done", "crashed"} => Produced + Cardinality(FailedRecords) = NumRecords

\* C4: every label the batch produced is the fire-confidence grid of the
\* reply to the FireConfidence query of the same record for the window
\* [date+1, date+2) at the record's location, and not that window's
\* vegetation grid; every input holds the vegetation grid and the
\* fire-confidence grid of the same record's window [date, date+1), the fire
\* grid in channel 1; the dataset pairs input k with label k.
C4_LabelIsFireChannel ==
    /\ ~tensors.isNone =>
         \A k \in 1..Len(tensors.data) :
            /\ Cardinality(Entries("line277", k - 1, "NDVI")) = 1
            /\ Cardinality(Entries("line277", k - 1, "FireConfidence")) = 1
            /\ LET v == log[CHOOSE n \in Entries("line277", k - 1, "NDVI") : TRUE]
                   f == log[CHOOSE n \in Entries("line277", k - 1, "FireConfidence") : TRUE]
               IN  /\ \A q \in {v, f} :
                        /\ q.latitude = lat_list[k] /\ q.longitude = long_list[k]
                        /\ q.start_date = date_list[k]
                        /\ q.end_date = get_next_day(date_list[k])
                   /\ Channel(tensors.data[k], 1) = FireGrid(f.reply)
                   /\ Channel(tensors.data[k], 0) = VegetationGrid(v.reply)
    /\ ~labels.isNone =>
         \A k \in 1..Len(labels.data) :
            /\ Cardinality(Entries("line278", k - 1, "FireConfidence")) = 1
            /\ Cardinality(Entries("line278", k - 1, "NDVI")) = 1
            /\ LET f == log[CHOOSE n \in Entries("line278", k - 1, "FireConfidence") : TRUE]
                   v == log[CHOOSE n \in Entries("line278", k - 1, "NDVI") : TRUE]
               IN  /\ f.latitude = lat_list[k] /\ f.longitude = long_list[k]
                   /\ f.start_date = get_next_day(date_list[k])
                   /\ f.end_date = get_next_day(get_next_day(date_list[k]))
                   /\ labels.data[k] = FireGrid(f.reply)
                   /\ labels.data[k] # VegetationGrid(v.reply)
    /\ ~dataset.isNone =>
         /\ Len(dataset.data) = NumRecords
         /\ \A k \in 1..NumRecords : dataset.data[k] = <<tensors.data[k], labels.data[k]>>

\* C4 witness: the batch is done over records that differ, with every label
\* in place
C4_Witness ==
    /\ pc = "done"
    /\ Len(labels.data) = NumRecords
    /\ date_list[1] # date_list[2]
    /\ \E n \in 1..Len(log) : Shape(log[n].reply.array) = <<TargetSide + 1, TargetSide>>

\* C10 (as claimed): building a label sends no vegetation query: every query
\* sent while line 278 runs is a FireConfidence query.
C10_LabelQueriesFireOnly ==
    \A n \in 1..Len(log) : log[n].line = "line278" => log[n].band = "FireConfidence"

\* the calendar, written out apart from the date arithmetic of the model
Successor(y, m, d) ==
    IF d < MonthLength(y, m) THEN <<y, m, d + 1>>
    ELSE IF m < 12 THEN <<y, m + 1, 1>> ELSE <<y + 1, 1, 1>>

\* YYYY-MM-DD
Written(y, m, d) ==
    <<Digits[(y \div 1000) + 1], Digits[((y \div 100) % 10) + 1],
      Digits[((y \div 10) % 10) + 1], Digits[(y % 10) + 1], "-",
      Digits[(m \div 10) + 1], Digits[(m % 10) + 1], "-",
      Digits[(d \div 10) + 1], Digits[(d % 10) + 1]>>

Applied(fn) == call.fn = fn /\ ret.exc # "pending"

\* C5: for a record dated d the input call gets (d, d+1) and the label call
\* (d+1, d+2), the label window starting where the input window ends, and
\* get_next_day gives the next calendar day written YYYY-MM-DD, also over a
\* month end, a year end and 28/29 February.
C5_AdjacentOneDayWindows ==
    Applied("get_next_day") =>
        LET s == call.date_string
            d0 == <<Number(s, 1, 4), Number(s, 6, 7), Number(s, 9, 10)>>
            d1 == Successor(d0[1], d0[2], d0[3])
            d2 == Successor(d1[1], d1[2], d1[3])
            out == ret.val.data
        IN  /\ out.next_day = Written(d1[1], d1[2], d1[3])
            /\ out.input = <<s, Written(d1[1], d1[2], d1[3])>>
            /\ out.label = <<Written(d1[1], d1[2], d1[3]), Written(d2[1], d2[2], d2[3])>>
            /\ out.label[1] = out.input[2]
            /\ out.input[1] # out.input[2] /\ out.label[1] # out.label[2]

\* C5 witness: the windows of 28 February of a leap year have been built
C5_Witness ==
    /\ Applied("get_next_day")
    /\ call.date_string = Written(2024, 2, 28)
    /\ ret.val.data.label = <<Written(2024, 2, 29), Written(2024, 3, 1)>>

IsFetch == call.fn \in {"get_vegetation_tensor", "get_fire_probability_tensor"}

\* C2: a fetch never ends by raising: a service error of any kind gives
\* None, any other reply a grid.
C2_FetchReturnsGridOrNone ==
    (IsFetch /\ ret.exc # "pending") =>
        /\ ret.exc = "none"
        /\ call.reply.error # "none" => ret.val = None
        /\ call.reply.error = "none" => ~ret.val.isNone

\* C2 witness: each fetch has turned a service error into None
C2_Witness ==
    /\ IsFetch
    /\ call.reply.error = "quota"
    /\ ret = Return(None)

\* the array the service handed to the client in a successful reply
RawArray == IF call.fn = "get_vegetation_tensor" THEN call.reply.array
            ELSE FireConfidenceImage(call.reply.images)

\* C6: every grid a fetch returns is TargetSide x TargetSide with one
\* channel, whatever shape the service answered with, and an answer that
\* already has that shape comes back cell for cell.
C6_GridHasTargetShape ==
    (IsFetch /\ ret.exc = "none" /\ ~ret.val.isNone) =>
        /\ Len(ret.val.data) = TargetSide
        /\ \A r \in 1..TargetSide : Len(ret.val.data[r]) = TargetSide
        /\ \A r \in 1..TargetSide : \A c \in 1..TargetSide : Len(ret.val.data[r][c]) = 1
        /\ TensorShape(ret.val.data) = <<TargetSide, TargetSide, 1>>
        /\ Shape(RawArray) = <<TargetSide, TargetSide>> =>
                Channel(ret.val.data, 0) = RawArray

\* C6 witness: an over-sized answer has come back as a grid
C6_Witness ==
    /\ IsFetch
    /\ call.reply.error = "none"
    /\ Shape(RawArray) = <<TargetSide + 1, TargetSide + 1>>
    /\ ret.exc = "none"
    /\ ~ret.val.isNone

SameSize(a, b) ==
    ~a.isNone /\ ~b.isNone /\ Len(a.data) = Len(b.data) /\ Len(a.data[1]) = Len(b.data[1])

\* C7 (as claimed): concat_tensors(tensor1=A, tensor2=B) has A in channel 0
\* and B in channel 1.
C7_FusionKeepsArgumentOrder ==
    (Applied("concat_tensors") /\ SameSize(call.tensor1, call.tensor2)) =>
        /\ ret.exc = "none"
        /\ Channel(ret.val.data, 0) = Channel(call.tensor1.data, 0)
        /\ Channel(ret.val.data, 1) = Channel(call.tensor2.data, 0)

\* C7 (amended): concat_tensors(tensor1=A, tensor2=B) returns a two-channel
\* grid with B in channel 0 and A in channel 1.
C7_FusionReversesArguments ==
    (Applied("concat_tensors") /\ SameSize(call.tensor1, call.tensor2)) =>
        /\ ret.exc = "none"
        /\ TensorShape(ret.val.data)
                = <<Len(call.tensor1.data), Len(call.tensor1.data[1]), 2>>
        /\ Channel(ret.val.data, 0) = Channel(call.tensor2.data, 0)
        /\ Channel(ret.val.data, 1) = Channel(call.tensor1.data, 0)

\* C7 witness: two different grids of one size have been fused
C7_Witness ==
    /\ Applied("concat_tensors")
    /\ SameSize(call.tensor1, call.tensor2)
    /\ call.tensor1 # call.tensor2
    /\ ret.exc = "none"

\* the weight (in tenths) the policy gives a code
WeightOf(code) == IF code = 4 THEN 5 ELSE IF code \in {5, 6} THEN 10 ELSE 0

\* C8: the mapping gives every cell the weight of that cell's code alone:
\* 0.5 for 4, 1.0 for 5 and for 6, 0.0 for any other code.
C8_FireConfidenceMapping ==
    Applied("assign_fire_confidence") =>
        LET raw == call.image.FireMask
            out == ret.val.data.FireConfidence
        IN  /\ Len(out) = Len(raw)
            /\ \A r \in 1..Len(raw) :
                /\ Len(out[r]) = Len(raw[r])
                /\ \A c \in 1..Len(raw[r]) :
                    /\ out[r][c] = WeightOf(raw[r][c])
                    /\ out[r][c] \in {0, 5, 10}

\* C8 witness: an image holding the codes 4, 6 and 255 has been mapped
C8_Witness ==
    /\ Applied("assign_fire_confidence")
    /\ {4, 6, 255} \subseteq {call.image.FireMask[r][c] :
            r \in 1..Len(call.image.FireMask), c \in 1..Len(call.image.FireMask[1])}

\* C9: for a center with |latitude| < 89 degrees the box of
\* get_vegetation_tensor strictly contains the center, and its longitude half
\* width is its latitude half width divided by cos(latitude), to within one
\* percent of fixed-point rounding.
C9_BoxContainsCenter ==
    (call.fn = "get_vegetation_tensor" /\ ret.exc # "pending"
        /\ Abs(call.latitude) < 8900) =>
        LET box == log[1].region
            dlat == box.lat_max - call.latitude
            dlon == box.lon_max - call.longitude
            cs == cos(deg2rad(call.latitude))
        IN  /\ box.lat_min < call.latitude /\ call.latitude < box.lat_max
            /\ box.lon_min < call.longitude /\ call.longitude < box.lon_max
            /\ box.lat_min < box.lat_max /\ box.lon_min < box.lon_max
            /\ call.latitude - box.lat_min = dlat
            /\ call.longitude - box.lon_min = dlon
            /\ Abs(dlon * cs - dlat * Scale) * 100 <= dlat * Scale

\* C9 witness: the box of a center at 88.99 degrees north has been computed
C9_Witness ==
    /\ call.fn = "get_vegetation_tensor"
    /\ ret.exc # "pending"
    /\ call.latitude = 8899
    /\ Len(log) = 1

\* the largest of the weights of the codes cell (r, c) has in the images
MaxWeight(images, r, c) ==
    CHOOSE w \in {WeightOf(images[k].FireMask[r][c]) : k \in 1..Len(images)} :
        \A k \in 1..Len(images) : WeightOf(images[k].FireMask[r][c]) <= w

\* the largest of the codes cell (r, c) has in the images
MaxCode(images, r, c) ==
    CHOOSE m \in {images[k].FireMask[r][c] : k \in 1..Len(images)} :
        \A k \in 1..Len(images) : images[k].FireMask[r][c] <= m

\* C12: the codes are mapped image by image before the reduction: every cell
\* of the grid get_fire_probability_tensor returns is the maximum, over the
\* images of the window, of the weights of that cell's codes (for a window
\* whose images have the target shape, cell for cell; for one-cell images,
\* in every cell of the grid), so codes 5 and 8 on two days give 1.0.
C12_MappedBeforeReduced ==
    (Applied("get_fire_probability_tensor") /\ call.reply.error = "none") =>
        LET images == call.reply.images
            sh == Shape(images[1].FireMask)
        IN  /\ ret.exc = "none"
            /\ ~ret.val.isNone
            /\ Len(ret.val.data) = TargetSide
            /\ \A r \in 1..TargetSide : Len(ret.val.data[r]) = TargetSide
            /\ sh = <<TargetSide, TargetSide>> =>
                \A r \in 1..TargetSide : \A c \in 1..TargetSide :
                    ret.val.data[r][c] = <<MaxWeight(images, r, c)>>
            /\ sh = <<1, 1>> =>
                \A r \in 1..TargetSide : \A c \in 1..TargetSide :
                    ret.val.data[r][c] = <<MaxWeight(images, 1, 1)>>

\* C12 witness: a cell with code 5 on one day and code 8 on another has been
\* reduced to 1.0, which is not the weight of its largest code
C12_Witness ==
    /\ Applied("get_fire_probability_tensor")
    /\ call.reply.error = "none"
    /\ Len(call.reply.images) = 2
    /\ Shape(call.reply.images[1].FireMask) = <<1, 1>>
    /\ {call.reply.images[k].FireMask[1][1] : k \in 1..2} = {5, 8}
    /\ ret.val.data[1][1] = <<10>>
    /\ WeightOf(MaxCode(call.reply.images, 1, 1)) = 0

\* the place of a fetch in the order the script issues them: statement,
\* then record, then band
FetchRank(q) ==
    ((IF q.line = "line277" THEN 0 ELSE 1) * NumRecords + q.record) * 2
        + (IF q.band = "NDVI" THEN 0 ELSE 1)

\* the fetches issued so far, in the order of their issue: the answered ones,
\* then the ones in flight
Issued == log \o in_flight

\* C11 (as claimed): at most one fetch is in flight, and every fetch of
\* record i, for its input window and for its label window, is issued before
\* any fetch of record i+1.
C11_RecordAtATime ==
    /\ Len(in_flight) <= 1
    /\ \A m \in 1..Len(Issued) : \A n \in 1..Len(Issued) :
            m < n => Issued[m].record <= Issued[n].record

\* C11 (amended): at most one fetch is in flight, a fetch is issued only
\* when every earlier one is answered, and the fetches are issued in two
\* passes: first the input-window fetches of every record (line 277), then
\* the label-window fetches of every record (line 278), within a pass record
\* i before record i+1 and, within a record, vegetation before fire.
C11_TwoPassesOneFetchAtATime ==
    /\ Len(in_flight) <= 1
    /\ \A m \in 1..Len(Issued) : \A n \in 1..Len(Issued) :
            m < n => FetchRank(Issued[m]) < FetchRank(Issued[n])
    /\ \A m \in 1..Len(Issued) :
            Issued[m].reply.error = "pending" <=> (m > Len(log))

\* C11 witness: the label-window fetch of the first record is in flight
\* after the input-window fetches of the last record were answered
C11_Witness ==
    /\ Len(in_flight) = 1
    /\ in_flight[1].line = "line278"
    /\ in_flight[1].record = 0
    /\ \E n \in 1..Len(log) :
            log[n].line = "line277" /\ log[n].record = NumRecords - 1

====
